---------------------------- MODULE Spec2Model ----------------------------
(***************************************************************************)
(* A model of the YOURLS client of src/yourls/core.py and of the           *)
(* extension mixins of src/yourls/extensions.py: the construction of a     *)
(* client, the authentication fields it merges into each request, the      *)
(* cache of the time limited signature, and the operations' mapping of     *)
(* the service's answers onto errors.                                      *)
(*                                                                         *)
(* Python values are records [t, s, n]: t is the type ("None", "str",     *)
(* "bool", "int"; "absent" for a key a dict does not hold), s the string   *)
(* and n the number.                                                       *)
(***************************************************************************)
EXTENDS Integers, Sequences, FiniteSets, TLC

VARIABLES
    constructed,        \* a client object exists (__init__ returned)
    username,           \* self.username
    password,           \* self.password
    signature,          \* self.signature
    nonce_life,         \* self.nonce_life
    _nonce_cache_time,  \* self._nonce_cache_time
    _cached_signature,  \* self._cached_signature
    now,                \* int(time.time())
    wire,               \* params of the last requests.get, NoRequest before the first
    last,               \* the last call: its operation, whether it sent a request, its outcome
    pc,                 \* concurrent callers of timed_signature: position of each
    timestamp,          \* concurrent callers: the local variable timestamp of each
    rtime,              \* concurrent callers: first element of the tuple being returned
    ret,                \* what the last call of timed_signature to end returned or raised
    calledAt            \* when the single caller last called timed_signature directly, -1 before

confVars == <<constructed, username, password, signature, nonce_life>>
cacheVars == <<_nonce_cache_time, _cached_signature>>
threadVars == <<pc, timestamp, rtime, ret, calledAt>>
vars == <<confVars, cacheVars, now, wire, last, threadVars>>

----------------------------------------------------------------------------
(* Bounds of the model *)

\* custom nonce lifetimes passed to the constructor are 0..MaxLife seconds
MaxLife == 2
\* the clock is read at the instants base + 0..MaxSkew, base 0 or the default lifetime
MaxSkew == 2
\* callers sharing one client in the concurrent specification
NThreads == 2
\* the clock of the concurrent specification runs from 0 to MaxConcTime
MaxConcTime == 2

----------------------------------------------------------------------------
(* Python values *)

PyNone == [t |-> "None", s |-> "", n |-> 0]
Absent == [t |-> "absent", s |-> "", n |-> 0]
PyStr(x) == [t |-> "str", s |-> x, n |-> 0]
PyInt(i) == [t |-> "int", s |-> "", n |-> i]
PyBool(b) == [t |-> "bool", s |-> "", n |-> IF b THEN 1 ELSE 0]
PyTrue == PyBool(TRUE)
PyFalse == PyBool(FALSE)

\* bool(v)
Truthy(v) ==
    CASE v.t = "str" -> v.s # ""
      [] v.t = "int" -> v.n # 0
      [] v.t = "bool" -> v.n # 0
      [] OTHER -> FALSE

\* a ^ b on bools
Xor(a, b) == (a /\ ~b) \/ (~a /\ b)

Digit(d) ==
    CASE d = 0 -> "0" [] d = 1 -> "1" [] d = 2 -> "2" [] d = 3 -> "3"
      [] d = 4 -> "4" [] d = 5 -> "5" [] d = 6 -> "6" [] d = 7 -> "7"
      [] d = 8 -> "8" [] d = 9 -> "9"

\* '{}'.format(n) of an int n >= 0: its decimal digits
RECURSIVE FormatInt(_)
FormatInt(n) == IF n < 10 THEN Digit(n) ELSE FormatInt(n \div 10) \o Digit(n % 10)

\* hashlib.md5(s.encode('utf8')).hexdigest(): the digest is a function of the
\* bytes hashed and nothing else; distinct inputs get distinct digests
Md5Hex(s) == "md5(" \o s \o ")"

\* hashlib.md5('{}{}'.format(timestamp, self.signature).encode('utf8')).hexdigest()
SignatureDigest(ts, sig) == Md5Hex(FormatInt(ts) \o sig.s)

----------------------------------------------------------------------------
(* Request parameters: a dict over the keys the operations use *)

Keys == {"format", "action", "username", "password", "signature", "timestamp",
         "url", "keyword", "title", "shorturl", "filter", "limit", "start",
         "newshorturl", "oldshorturl"}

\* a dict holding no key; dict(a=x, ...) is [EmptyDict EXCEPT !.a = x, ...]
EmptyDict == [k \in Keys |-> Absent]
NoRequest == EmptyDict

\* p.update(d)
Update(p, d) == [k \in Keys |-> IF d[k] # Absent THEN d[k] ELSE p[k]]

----------------------------------------------------------------------------
(* Construction *)

NonceLifeDefault == 43200

\* a faulty __init__ that lacks the clause on nonce_life
InitRaises_NoNonceClause(u, p, s, nl) ==
    ~ Xor(Truthy(u) /\ Truthy(p), Truthy(s))

\* the condition under which __init__ raises TypeError
InitRaises(u, p, s, nl) ==
    \/ ~ Xor(Truthy(u) /\ Truthy(p), Truthy(s))
    \/ (Truthy(nl) /\ ~ Truthy(s))

\* self.nonce_life after __init__: True becomes 43200
InitNonceLife(nl) == IF nl = PyTrue THEN PyInt(NonceLifeDefault) ELSE nl

Outcome(kind, keyword, url, msg) ==
    [kind |-> kind, keyword |-> keyword, url |-> url, msg |-> msg]
Returned == Outcome("ok", PyNone, PyNone, "")
NoResponse == [status |-> 0, code |-> "", message |-> ""]
Called(op, args, resp, sent, out) ==
    [op |-> op, args |-> args, resp |-> resp, sent |-> sent, outcome |-> out]
NoCall == Called("none", <<>>, NoResponse, FALSE, Returned)

ConfigError ==
    Outcome("TypeError", PyNone, PyNone,
            "If server requires authentication, either pass username and password or signature. Otherwise, leave set to default (None). nonce_life may only be passed, if signature is passed.")

\* YOURLSClient(apiurl, username, password, signature, nonce_life)
Construct(u, p, s, nl) ==
    /\ ~ constructed
    /\ IF InitRaises(u, p, s, nl)
       THEN /\ last' = Called("__init__", <<u, p, s, nl>>, NoResponse, FALSE, ConfigError)
            /\ UNCHANGED <<confVars, cacheVars>>
       ELSE /\ constructed' = TRUE
            /\ username' = u
            /\ password' = p
            /\ signature' = s
            /\ nonce_life' = InitNonceLife(nl)
            /\ _nonce_cache_time' = PyNone
            /\ _cached_signature' = PyNone
            /\ last' = Called("__init__", <<u, p, s, nl>>, NoResponse, FALSE, Returned)
    /\ UNCHANGED <<now, wire, threadVars>>

----------------------------------------------------------------------------
(* The clock *)

Instants == (0 .. MaxSkew) \cup {NonceLifeDefault + j : j \in 0 .. MaxSkew}

\* time passes: time.time() does not go back
Tick(t) ==
    /\ t > now
    /\ now' = t
    /\ UNCHANGED <<confVars, cacheVars, wire, last, threadVars>>

----------------------------------------------------------------------------
(* The time limited signature and the authentication fields *)

\* a faulty test that refreshes as soon as the lifetime is reached (>= for >)
MustRefresh_AtLifetime(ts) ==
    \/ ~ Truthy(_cached_signature)
    \/ ts - _nonce_cache_time.n >= nonce_life.n

\* a faulty test that never refreshes a cached digest
MustRefresh_OnlyWhenEmpty(ts) ==
    ~ Truthy(_cached_signature)

\* the test of timed_signature: no cached digest, or the cached one is too old
MustRefresh(ts) ==
    \/ ~ Truthy(_cached_signature)
    \/ ts - _nonce_cache_time.n > nonce_life.n

\* the cache after timed_signature() at time ts
TimedSignatureCache(ts) ==
    IF MustRefresh(ts)
    THEN [time |-> PyInt(ts), sig |-> PyStr(SignatureDigest(ts, signature))]
    ELSE [time |-> _nonce_cache_time, sig |-> _cached_signature]

\* what timed_signature() returns at time ts: the cache it leaves
TimedSignature(ts) == TimedSignatureCache(ts)

\* the branch of _data that calls timed_signature
UsesTimedSignature ==
    ~ Truthy(username) /\ Truthy(signature) /\ Truthy(nonce_life)

\* the property _data read at time ts
Data(ts) ==
    IF Truthy(username)
    THEN [EmptyDict EXCEPT !.format = PyStr("json"), !.username = username,
                           !.password = password]
    ELSE IF Truthy(signature) /\ ~ Truthy(nonce_life)
    THEN [EmptyDict EXCEPT !.format = PyStr("json"), !.signature = signature]
    ELSE IF Truthy(signature) /\ Truthy(nonce_life)
    THEN LET pair == TimedSignature(ts)
         IN  [EmptyDict EXCEPT !.format = PyStr("json"), !.signature = pair.sig,
                               !.timestamp = pair.time]
    ELSE [EmptyDict EXCEPT !.format = PyStr("json")]

\* a faulty _data that computes the timed signature for every client
DataCache_Always(ts) ==
    [time |-> PyInt(ts), sig |-> PyStr(SignatureDigest(ts, signature))]

\* the effect of reading _data on the cache
DataCache(ts) ==
    IF UsesTimedSignature
    THEN TimedSignatureCache(ts)
    ELSE [time |-> _nonce_cache_time, sig |-> _cached_signature]


----------------------------------------------------------------------------
(* The service's answer and its translation *)

Response(status, code, message) == [status |-> status, code |-> code, message |-> message]

Success == Response(200, "", "success")
ServerError == Response(500, "", "server error")
NotFound200 == Response(200, "", "not found")
NotFound404 == Response(404, "", "error: not found")
NotFoundBare404 == Response(404, "", "not found")
Exists400 == Response(400, "", "error: already exists")
Exists200 == Response(200, "", "already exists")
KeywordTaken == Response(200, "error:keyword", "keyword already exists")
UrlTaken == Response(200, "error:url", "url already exists")
MissingUrl == Response(200, "error:nourl", "missing url")
Loop == Response(200, "error:noloop", "url is a short url")
Failed == Response(200, "error:other", "failed")

\* '{}'.format(v) of None or of a str
FormatStr(v) == IF v.t = "None" THEN "None" ELSE v.s

\* YOURLSURLNotExistsError(keyword=keyword, url=url)
NotExistsError(keyword, url) ==
    Outcome("YOURLSURLNotExistsError", keyword, url,
            IF Truthy(url)
            THEN "URL " \o FormatStr(url) \o " does not exist."
            ELSE "Short URL " \o FormatStr(keyword) \o " does not exist.")

\* _validate_yourls_response(response, params): what _api_request returns or raises
ValidateResponse(resp, params) ==
    IF resp.status \notin 200 .. 299
    THEN Outcome("YOURLSHTTPError", PyNone, PyNone, resp.message)
    ELSE CASE resp.code = "error:keyword" ->
                Outcome("YOURLSKeywordExistsError", params["keyword"], PyNone, resp.message)
           [] resp.code = "error:url" ->
                Outcome("YOURLSURLExistsError", PyNone, params["url"], resp.message)
           [] resp.code = "error:nourl" ->
                Outcome("YOURLSNoURLError", PyNone, PyNone, resp.message)
           [] resp.code = "error:noloop" ->
                Outcome("YOURLSNoLoopError", PyNone, PyNone, resp.message)
           [] resp.code = "" /\ resp.message = "not found" ->
                NotExistsError(PyNone, PyNone)
           [] resp.code = "" /\ resp.message = "success" -> Returned
           [] OTHER -> Outcome("YOURLSAPIError", PyNone, PyNone, resp.message)

\* str(e) == text for the exception e that _api_request raised
RaisedHTTPError(out, text) == out.kind = "YOURLSHTTPError" /\ out.msg = text

----------------------------------------------------------------------------
(* _api_request *)

\* params.copy() updated with self._data
Merged(params) == Update(params, Data(now))

\* _api_request(params) called by `op`(args): reads _data (which may refresh the
\* cache) and sends the request, which the service answers with resp; `op` turns
\* what _api_request returns or raises into its own outcome, out
ApiRequest(op, args, params, resp, out) ==
    /\ constructed
    /\ wire' = Merged(params)
    /\ _nonce_cache_time' = DataCache(now).time
    /\ _cached_signature' = DataCache(now).sig
    /\ last' = Called(op, args, resp, TRUE, out)
    /\ UNCHANGED <<confVars, now, threadVars>>

\* an operation that raises before any request
RaiseEarly(op, args, out) ==
    /\ constructed
    /\ last' = Called(op, args, NoResponse, FALSE, out)
    /\ UNCHANGED <<confVars, cacheVars, now, wire, threadVars>>

----------------------------------------------------------------------------
(* Arguments and answers the operations are tried with *)

UserArgs == {PyNone, PyStr("u")}
PassArgs == {PyNone, PyStr("p")}
SigArgs == {PyNone, PyStr("s3cr3t")}
LifeArgs == {PyNone, PyTrue, PyInt(0), PyInt(MaxLife)}

ShortArgs == {PyStr("abc"), PyStr("x")}
UrlArgs == {PyStr("http://a.io"), PyStr("http://b.io")}
FilterArgs == {PyStr("top"), PyStr("bottom"), PyStr("rand"), PyStr("last"),
               PyStr("random"), PyStr("invalid")}
TitleArgs == {<<PyNone, PyFalse>>, <<PyNone, PyTrue>>, <<PyStr("T"), PyTrue>>}

ShortenResponses == {Success, KeywordTaken, UrlTaken, MissingUrl, Loop, ServerError}
ReadResponses == {Success, ServerError}
EditResponses == {Success, NotFound200, NotFound404, NotFoundBare404, ServerError}
ChangeResponses == EditResponses \cup {Exists400, Exists200}

----------------------------------------------------------------------------
(* YOURLSAPIMixin *)

shorten(url, keyword, title, resp) ==
    LET data == [EmptyDict EXCEPT !.action = PyStr("shorturl"), !.url = url,
                                  !.keyword = keyword, !.title = title]
    IN  ApiRequest("shorten", <<url, keyword, title>>, data, resp, ValidateResponse(resp, Merged(data)))

expand(short, resp) ==
    LET data == [EmptyDict EXCEPT !.action = PyStr("expand"), !.shorturl = short]
    IN  ApiRequest("expand", <<short>>, data, resp, ValidateResponse(resp, Merged(data)))

url_stats(short, resp) ==
    LET data == [EmptyDict EXCEPT !.action = PyStr("url-stats"), !.shorturl = short]
    IN  ApiRequest("url_stats", <<short>>, data, resp, ValidateResponse(resp, Merged(data)))

valid_filters == {PyStr("top"), PyStr("bottom"), PyStr("rand"), PyStr("last")}

\* a faulty stats that does not normalise 'random'
NormalisedFilter_Identity(filter) == filter

\* 'random' is normalised to 'rand'
NormalisedFilter(filter) == IF filter = PyStr("random") THEN PyStr("rand") ELSE filter

FilterError ==
    Outcome("ValueError", PyNone, PyNone, "filter must be one of top, bottom, rand, last")

stats(filter, limit, start, resp) ==
    IF NormalisedFilter(filter) \notin valid_filters
    THEN RaiseEarly("stats", <<filter, limit, start>>, FilterError)
    ELSE LET data == [EmptyDict EXCEPT !.action = PyStr("stats"),
                                       !.filter = NormalisedFilter(filter), !.limit = limit,
                                       !.start = start]
         IN  ApiRequest("stats", <<filter, limit, start>>, data, resp, ValidateResponse(resp, Merged(data)))

db_stats(resp) ==
    LET data == [EmptyDict EXCEPT !.action = PyStr("db-stats")]
    IN  ApiRequest("db_stats", <<>>, data, resp, ValidateResponse(resp, Merged(data)))

----------------------------------------------------------------------------
(* YOURLSDeleteMixin, YOURLSEditUrlMixin *)

\* a faulty except clause that raises the error without its keyword and url
OnNotFound_NoContext(out, keyword, url) ==
    IF out.kind = "YOURLSHTTPError" /\ out.msg = "error: not found"
    THEN Outcome("YOURLSURLNotExistsError", PyNone, PyNone, "Short URL None does not exist.")
    ELSE out

\* the except clause shared by delete, geturl and update
OnNotFound(out, keyword, url) ==
    IF RaisedHTTPError(out, "error: not found") THEN NotExistsError(keyword, url) ELSE out

delete(short, resp) ==
    LET data == [EmptyDict EXCEPT !.action = PyStr("delete"), !.shorturl = short]
    IN  ApiRequest("delete", <<short>>, data, resp,
                   OnNotFound(ValidateResponse(resp, Merged(data)), short, PyNone))

geturl(url, resp) ==
    LET data == [EmptyDict EXCEPT !.action = PyStr("geturl"), !.url = url]
    IN  ApiRequest("geturl", <<url>>, data, resp,
                   OnNotFound(ValidateResponse(resp, Merged(data)), PyNone, url))

\* if not title and use_current_title: title = 'keep'
KeepTitle(title, use_current_title) ==
    IF ~ Truthy(title) /\ Truthy(use_current_title) THEN PyStr("keep") ELSE title

update(shorturl, url, title, use_current_title, resp) ==
    LET data == [EmptyDict EXCEPT !.action = PyStr("update"), !.shorturl = shorturl,
                                  !.url = url,
                                  !.title = KeepTitle(title, use_current_title)]
    IN  ApiRequest("update", <<shorturl, url, title, use_current_title>>, data, resp,
                   OnNotFound(ValidateResponse(resp, Merged(data)), shorturl, PyNone))

\* a faulty except clause that tests the two messages in one branch
OnChangeError_AlwaysNotFound(out, newshorturl) ==
    IF out.kind = "YOURLSHTTPError" /\ out.msg \in {"error: not found", "error: already exists"}
    THEN Outcome("YOURLSURLNotExistsError", newshorturl, PyNone,
                 "Short URL " \o FormatStr(newshorturl) \o " does not exist.")
    ELSE out

\* the except clause of change_keyword
OnChangeError(out, newshorturl) ==
    IF RaisedHTTPError(out, "error: not found")
    THEN NotExistsError(newshorturl, PyNone)
    ELSE IF RaisedHTTPError(out, "error: already exists")
    THEN Outcome("YOURLSKeywordExistsError", newshorturl, PyNone, "")
    ELSE out

change_keyword(newshorturl, oldshorturl, url, title, use_current_title, resp) ==
    LET data == [EmptyDict EXCEPT !.action = PyStr("change_keyword"),
                                  !.newshorturl = newshorturl, !.oldshorturl = oldshorturl,
                                  !.url = url,
                                  !.title = KeepTitle(title, use_current_title)]
    IN  ApiRequest("change_keyword",
                   <<newshorturl, oldshorturl, url, title, use_current_title>>, data, resp,
                   OnChangeError(ValidateResponse(resp, Merged(data)), newshorturl))

----------------------------------------------------------------------------
(* One caller *)

Callers == 1 .. NThreads
NoReturn == [kind |-> "none", time |-> PyNone, sig |-> PyNone]

\* no caller is inside timed_signature
NoCallers ==
    /\ pc = [c \in Callers |-> "idle"]
    /\ timestamp = [c \in Callers |-> 0]
    /\ rtime = [c \in Callers |-> PyNone]
    /\ ret = NoReturn
    /\ calledAt = -1

Init ==
    /\ constructed = FALSE
    /\ username = PyNone
    /\ password = PyNone
    /\ signature = PyNone
    /\ nonce_life = PyNone
    /\ _nonce_cache_time = PyNone
    /\ _cached_signature = PyNone
    /\ now = 0
    /\ wire = NoRequest
    /\ last = NoCall
    /\ NoCallers

\* every operation of the client; the extension operations with one argument list
Next ==
    \/ \E u \in UserArgs, p \in PassArgs, s \in SigArgs, nl \in LifeArgs : Construct(u, p, s, nl)
    \/ \E t \in Instants : Tick(t)
    \/ \E r \in ShortenResponses : shorten(PyStr("http://a.io"), PyStr("abc"), PyNone, r)
    \/ \E r \in ReadResponses : expand(PyStr("abc"), r)
    \/ \E r \in ReadResponses : url_stats(PyStr("abc"), r)
    \/ \E f \in FilterArgs, r \in ReadResponses : stats(f, PyInt(10), PyNone, r)
    \/ \E r \in ReadResponses : db_stats(r)
    \/ \E r \in {Success, NotFound404} : delete(PyStr("abc"), r)
    \/ \E r \in {Success, NotFound404} : geturl(PyStr("http://a.io"), r)
    \/ \E r \in {Success, NotFound404} :
          update(PyStr("abc"), PyStr("http://a.io"), PyNone, PyFalse, r)
    \/ \E r \in {Success, Exists400} :
          change_keyword(PyStr("x"), PyStr("abc"), PyNone, PyNone, PyNone, r)

Spec == Init /\ [][Next]_vars

----------------------------------------------------------------------------
(* The extension operations in depth, on three clients *)

\* the state __init__(apiurl, u, p, s, nl) leaves
Constructed(u, p, s, nl) ==
    /\ ~ InitRaises(u, p, s, nl)
    /\ constructed = TRUE
    /\ username = u
    /\ password = p
    /\ signature = s
    /\ nonce_life = InitNonceLife(nl)
    /\ _nonce_cache_time = PyNone
    /\ _cached_signature = PyNone

ExtClients ==
    {<<PyStr("u"), PyStr("p"), PyNone, PyNone>>,
     <<PyNone, PyNone, PyStr("s3cr3t"), PyNone>>,
     <<PyNone, PyNone, PyStr("s3cr3t"), PyInt(MaxLife)>>}

InitExt ==
    /\ \E c \in ExtClients : Constructed(c[1], c[2], c[3], c[4])
    /\ now = 0
    /\ wire = NoRequest
    /\ last = NoCall
    /\ NoCallers

NextExt ==
    \/ \E k \in ShortArgs, r \in EditResponses : delete(k, r)
    \/ \E u \in UrlArgs, r \in EditResponses : geturl(u, r)
    \/ \E k \in ShortArgs, u \in UrlArgs, t \in TitleArgs, r \in EditResponses :
          update(k, u, t[1], t[2], r)
    \/ \E k \in ShortArgs, o \in {PyNone, PyStr("old")}, t \in TitleArgs, r \in ChangeResponses :
          change_keyword(k, o, PyNone, t[1], t[2], r)

SpecExt == InitExt /\ [][NextExt]_vars

----------------------------------------------------------------------------
(* Callers sharing one client: timed_signature step by step.  Each step is  *)
(* one read or one write of an attribute of the client.                     *)

\* timestamp = int(time.time())
Call(c) ==
    /\ pc[c] = "idle"
    /\ timestamp' = [timestamp EXCEPT ![c] = now]
    /\ pc' = [pc EXCEPT ![c] = "test_sig"]
    /\ UNCHANGED <<calledAt, confVars, cacheVars, now, wire, last, rtime, ret>>

\* not self._cached_signature
TestSig(c) ==
    /\ pc[c] = "test_sig"
    /\ pc' = [pc EXCEPT ![c] = IF ~ Truthy(_cached_signature) THEN "write_sig" ELSE "test_time"]
    /\ UNCHANGED <<calledAt, confVars, cacheVars, now, wire, last, timestamp, rtime, ret>>

\* timestamp - self._nonce_cache_time > self.nonce_life; int - None raises TypeError
TestTime(c) ==
    /\ pc[c] = "test_time"
    /\ IF _nonce_cache_time = PyNone
       THEN /\ ret' = [kind |-> "TypeError", time |-> PyNone, sig |-> PyNone]
            /\ pc' = [pc EXCEPT ![c] = "idle"]
            /\ timestamp' = [timestamp EXCEPT ![c] = 0]
       ELSE IF timestamp[c] - _nonce_cache_time.n > nonce_life.n
       THEN /\ pc' = [pc EXCEPT ![c] = "write_sig"]
            /\ UNCHANGED <<ret, timestamp>>
       ELSE /\ pc' = [pc EXCEPT ![c] = "read_time"]
            /\ timestamp' = [timestamp EXCEPT ![c] = 0]
            /\ UNCHANGED ret
    /\ UNCHANGED <<calledAt, confVars, cacheVars, now, wire, last, rtime>>

\* self._cached_signature = hashlib.md5(...).hexdigest()
WriteSig(c) ==
    /\ pc[c] = "write_sig"
    /\ _cached_signature' = PyStr(SignatureDigest(timestamp[c], signature))
    /\ pc' = [pc EXCEPT ![c] = "write_time"]
    /\ UNCHANGED <<calledAt, confVars, _nonce_cache_time, now, wire, last, timestamp, rtime, ret>>

\* self._nonce_cache_time = timestamp
WriteTime(c) ==
    /\ pc[c] = "write_time"
    /\ _nonce_cache_time' = PyInt(timestamp[c])
    /\ pc' = [pc EXCEPT ![c] = "read_time"]
    /\ timestamp' = [timestamp EXCEPT ![c] = 0]
    /\ UNCHANGED <<calledAt, confVars, _cached_signature, now, wire, last, rtime, ret>>

\* return self._nonce_cache_time, ...: the first element of the tuple
ReadTime(c) ==
    /\ pc[c] = "read_time"
    /\ rtime' = [rtime EXCEPT ![c] = _nonce_cache_time]
    /\ pc' = [pc EXCEPT ![c] = "read_sig"]
    /\ UNCHANGED <<calledAt, confVars, cacheVars, now, wire, last, timestamp, ret>>

\* return ..., self._cached_signature: the second element, and the return
ReadSig(c) ==
    /\ pc[c] = "read_sig"
    /\ ret' = [kind |-> "pair", time |-> rtime[c], sig |-> _cached_signature]
    /\ rtime' = [rtime EXCEPT ![c] = PyNone]
    /\ pc' = [pc EXCEPT ![c] = "idle"]
    /\ UNCHANGED <<calledAt, confVars, cacheVars, now, wire, last, timestamp>>

InitConc ==
    /\ Constructed(PyNone, PyNone, PyStr("s3cr3t"), PyInt(1))
    /\ now = 0
    /\ wire = NoRequest
    /\ last = NoCall
    /\ NoCallers

NextConc ==
    \/ \E t \in 0 .. MaxConcTime : Tick(t)
    \/ \E c \in Callers : Call(c)
    \/ \E c \in Callers : TestSig(c)
    \/ \E c \in Callers : TestTime(c)
    \/ \E c \in Callers : WriteSig(c)
    \/ \E c \in Callers : WriteTime(c)
    \/ \E c \in Callers : ReadTime(c)
    \/ \E c \in Callers : ReadSig(c)

SpecConc == InitConc /\ [][NextConc]_vars

----------------------------------------------------------------------------
(* One caller calling timed_signature directly on a signature client with a *)
(* nonce lifetime                                                           *)

\* timed_signature(), the whole call
timed_signature ==
    /\ constructed
    /\ _nonce_cache_time' = TimedSignatureCache(now).time
    /\ _cached_signature' = TimedSignatureCache(now).sig
    /\ ret' = [kind |-> "pair", time |-> TimedSignature(now).time, sig |-> TimedSignature(now).sig]
    /\ calledAt' = now
    /\ UNCHANGED <<confVars, now, wire, last, pc, timestamp, rtime>>

InitSign ==
    /\ \E nl \in {PyTrue} \cup {PyInt(l) : l \in 1 .. MaxLife} :
          Constructed(PyNone, PyNone, PyStr("s3cr3t"), nl)
    /\ now = 0
    /\ wire = NoRequest
    /\ last = NoCall
    /\ NoCallers

NextSign ==
    \/ \E t \in Instants : Tick(t)
    \/ timed_signature

SpecSign == InitSign /\ [][NextSign]_vars

----------------------------------------------------------------------------
(* The claims.  An argument is "supplied" when it is truthy, the test       *)
(* __init__ and _data apply: None, 0 and False are not.                     *)

Supplied(v) == Truthy(v)
CacheAbsent == _nonce_cache_time = PyNone /\ _cached_signature = PyNone
NoAuthFields(w) ==
    /\ w["username"] = Absent
    /\ w["password"] = Absent
    /\ w["signature"] = Absent
    /\ w["timestamp"] = Absent

\* the three cases in which construction has to fail
MustFail(u, p, s, nl) ==
    \/ (Supplied(u) /\ Supplied(p)) /\ Supplied(s)
    \/ ~ (Supplied(u) /\ Supplied(p)) /\ ~ Supplied(s)
    \/ Supplied(nl) /\ ~ Supplied(s)

C2_NoAuthClient ==
    /\ (last.op = "__init__" /\ last.args = <<PyNone, PyNone, PyNone, PyNone>>)
          => (last.outcome.kind = "ok" /\ constructed)
    /\ (/\ constructed
        /\ username = PyNone /\ password = PyNone /\ signature = PyNone
        /\ last.sent)
          => (wire["format"] = PyStr("json") /\ NoAuthFields(wire))

\* C3 as stated: two successive calls of timed_signature made within
\* nonce_life seconds of each other return the same (timestamp, digest) pair.
C3_SameWithinLifetimeOfEachOther ==
    [][ (calledAt >= 0 /\ calledAt' - calledAt <= nonce_life.n)
            => (ret'.time = ret.time /\ ret'.sig = ret.sig) ]_vars

\* C3, amended: a call made at most nonce_life seconds after the cached
\* timestamp returns the cached pair and leaves the cache as it is; a call made
\* with no cached pair, or more than nonce_life seconds after the cached
\* timestamp, returns and caches a new digest, of the current time and the
\* signature, with the current time as its timestamp.
C3_SameWithinLifetimeOfCache ==
    [][ (now' = now /\ calledAt' = now) =>
            IF _cached_signature # PyNone /\ now - _nonce_cache_time.n <= nonce_life.n
            THEN /\ ret'.time = _nonce_cache_time
                 /\ ret'.sig = _cached_signature
                 /\ UNCHANGED cacheVars
            ELSE /\ ret'.time = PyInt(now)
                 /\ ret'.sig = PyStr(SignatureDigest(now, signature))
                 /\ ret'.sig # _cached_signature
                 /\ _nonce_cache_time' = ret'.time
                 /\ _cached_signature' = ret'.sig ]_vars

\* a call returned a pair cached by an earlier call, and one refreshed it later
C3_Witness ==
    /\ ret.kind = "pair"
    /\ ret.time.n > 0
    /\ ret.time.n < calledAt

\* C4: each request carries format=json and exactly one scheme: username and
\* password when both are configured; otherwise the static signature when a
\* signature is configured without nonce lifetime; otherwise the digest of
\* timestamp and signature, with that timestamp.  No field of another scheme.
C4_OneScheme ==
    last.sent =>
        /\ wire["format"] = PyStr("json")
        /\ IF Supplied(username) /\ Supplied(password)
           THEN /\ wire["username"] = username
                /\ wire["password"] = password
                /\ wire["signature"] = Absent
                /\ wire["timestamp"] = Absent
           ELSE IF Supplied(signature) /\ ~ Supplied(nonce_life)
           THEN /\ wire["signature"] = signature
                /\ wire["username"] = Absent
                /\ wire["password"] = Absent
                /\ wire["timestamp"] = Absent
           ELSE IF Supplied(signature) /\ Supplied(nonce_life)
           THEN /\ wire["timestamp"].t = "int"
                /\ wire["signature"] = PyStr(SignatureDigest(wire["timestamp"].n, signature))
                /\ wire["username"] = Absent
                /\ wire["password"] = Absent
           ELSE NoAuthFields(wire)

AcceptedFilters ==
    {PyStr("top"), PyStr("bottom"), PyStr("rand"), PyStr("last"), PyStr("random")}

\* C5: stats sends a request exactly when its filter is top, bottom, rand, last
\* or random; the filter sent is the one passed, rand for random; with any
\* other filter stats raises ValueError, sends nothing and leaves the
\* signature cache alone.
C5_StatsFilter ==
    /\ [](last.op = "stats" =>
            IF last.args[1] \in AcceptedFilters
            THEN /\ last.sent
                 /\ wire["action"] = PyStr("stats")
                 /\ wire["filter"] \in {PyStr("top"), PyStr("bottom"), PyStr("rand"), PyStr("last")}
                 /\ wire["filter"] =
                       IF last.args[1] = PyStr("random") THEN PyStr("rand") ELSE last.args[1]
            ELSE /\ ~ last.sent
                 /\ last.outcome.kind = "ValueError")
    /\ [][ (last'.op = "stats" /\ ~ last'.sent)
              => (wire' = wire /\ UNCHANGED cacheVars) ]_vars

\* stats(filter='random') sent filter=rand
C5_Witness ==
    /\ last.op = "stats"
    /\ last.args[1] = PyStr("random")
    /\ last.sent
    /\ wire["filter"] = PyStr("rand")

\* the error delete, update and geturl are to raise on "not found"
NotFoundOf(call) ==
    IF call.op = "geturl"
    THEN NotExistsError(PyNone, call.args[1])
    ELSE NotExistsError(call.args[1], PyNone)

Bound(time, sig) ==
    time.t = "int" /\ sig = PyStr(SignatureDigest(time.n, signature))

\* C8: with callers interleaving inside timed_signature, every pair returned to
\* a caller, and every pair left in the cache once no caller is inside, has
\* digest = hash(timestamp || signature).
C8_PairsBound ==
    /\ ret.kind = "pair" => Bound(ret.time, ret.sig)
    /\ ((\A c \in Callers : pc[c] = "idle") /\ ~ CacheAbsent)
          => Bound(_nonce_cache_time, _cached_signature)

\* the clients C3 and C10 are about: a signature, a nonce lifetime, no username or password
SignatureOnly ==
    /\ constructed
    /\ ~ Supplied(username) /\ ~ Supplied(password)
    /\ Supplied(signature) /\ Supplied(nonce_life)

\* C9: the cache is absent on a new client; it stays absent on a client with
\* username and password and on one with a static signature; only a request
\* that signs changes it, to the current time and its digest; a request made
\* within the lifetime of the cached value changes neither field; nothing
\* changes username, password, signature or nonce_life of a client.
C9_CacheFrame ==
    /\ [](~ constructed => CacheAbsent)
    /\ []((/\ constructed
           /\ \/ Supplied(username) /\ Supplied(password)
              \/ Supplied(signature) /\ ~ Supplied(nonce_life)) => CacheAbsent)
    /\ [][ /\ (~ constructed /\ constructed')
                => (_nonce_cache_time' = PyNone /\ _cached_signature' = PyNone)
           /\ constructed => UNCHANGED confVars
           /\ (cacheVars' # cacheVars /\ constructed)
                => /\ last'.sent /\ now' = now
                   /\ Supplied(signature) /\ Supplied(nonce_life)
                   /\ _nonce_cache_time' = PyInt(now)
                   /\ _cached_signature' = PyStr(SignatureDigest(now, signature))
           /\ (/\ constructed /\ _cached_signature # PyNone
               /\ now' = now
               /\ now - _nonce_cache_time.n <= nonce_life.n)
                => UNCHANGED cacheVars ]_vars

\* a static-signature client has sent a request and its cache is absent
C9_Witness ==
    /\ constructed
    /\ Supplied(signature) /\ ~ Supplied(nonce_life)
    /\ last.sent
    /\ wire["signature"] = signature
    /\ CacheAbsent

============================================================================
